---- MODULE Spec2Model ----
(***************************************************************************)
(* Model of tap/parsing.py: class Tap(ArgumentParser).                     *)
(*                                                                         *)
(* A Tap subclass is a record cls (annotations in declaration order, the   *)
(* class body, the add_arguments hook).  Python objects are typed values;  *)
(* lists live in a heap so that aliasing and deepcopy are observable.      *)
(* parse_args is followed step by step (delegate to argparse, the loop of  *)
(* _parse_args, validate_args, process_args, return) because the order of  *)
(* these steps is part of what is verified.  parse_args is called with     *)
(* namespace=None, command lines are sequences of "--flag value" pairs.    *)
(***************************************************************************)
EXTENDS Integers, Sequences, FiniteSets, TLC

VARIABLES cls, heap, actions, inst, call, parsed, out, file, nparses, nmut

vars == <<cls, heap, actions, inst, call, parsed, out, file, nparses, nmut>>

(***************************************************************************)
(* Bounds.                                                                 *)
(***************************************************************************)
MaxFields == 2      \* annotated fields per class
MaxHook == 1        \* add_argument calls made by the add_arguments hook
MaxArgs == 1        \* "--flag value" pairs on one command line
MaxParses == 2      \* parse_args calls in one behaviour
MaxMutations == 1   \* list mutations by the caller in one behaviour

(***************************************************************************)
(* Python values.  ty is type(value).__name__; n/e carry numbers (an int   *)
(* is n, a float is n * 10^-e with no trailing zero digit, a bool is       *)
(* n in {0,1}); s carries a str as a sequence of characters; ref is the    *)
(* heap address of a list.  Absent stands for "no such attribute".         *)
(***************************************************************************)
Val(ty, n, e, s, ref) == [ty |-> ty, n |-> n, e |-> e, s |-> s, ref |-> ref]
IntV(n) == Val("int", n, 0, <<>>, 0)
FloatV(n, e) == Val("float", n, e, <<>>, 0)
BoolV(b) == Val("bool", IF b THEN 1 ELSE 0, 0, <<>>, 0)
StrV(s) == Val("str", 0, 0, s, 0)
NoneV == Val("NoneType", 0, 0, <<>>, 0)
FuncV == Val("function", 0, 0, <<>>, 0)
ListRef(id) == Val("list", 0, 0, <<>>, id)
Absent == Val("<absent>", 0, 0, <<>>, 0)

DigitChars == <<"0", "1", "2", "3", "4", "5", "6", "7", "8", "9">>
IsDigit(c) == \E d \in 1..10 : DigitChars[d] = c
DigitVal(c) == (CHOOSE d \in 1..10 : DigitChars[d] = c) - 1

\* int(s): a non-empty run of decimal digits, read in base ten.
RECURSIVE DigitsToNat(_)
DigitsToNat(s) ==
  IF s = <<>> THEN 0
  ELSE DigitsToNat(SubSeq(s, 1, Len(s) - 1)) * 10 + DigitVal(s[Len(s)])

AllDigits(s) == \A k \in 1..Len(s) : IsDigit(s[k])

\* a float is kept as mantissa and decimal exponent without trailing zeros
RECURSIVE NormFloat(_, _)
NormFloat(n, e) ==
  IF e > 0 /\ n % 10 = 0 THEN NormFloat(n \div 10, e - 1) ELSE FloatV(n, e)

DotPositions(s) == {k \in 1..Len(s) : s[k] = "."}
SelectDigits(s) == SelectSeq(s, IsDigit)

\* float(s): digits with at most one decimal point and at least one digit
IsFloatLiteral(s) ==
  /\ \A k \in 1..Len(s) : IsDigit(s[k]) \/ s[k] = "."
  /\ Cardinality(DotPositions(s)) <= 1
  /\ SelectDigits(s) # <<>>

ParseFloat(s) ==
  LET dots == DotPositions(s)
      frac == IF dots = {} THEN 0 ELSE Len(s) - (CHOOSE k \in dots : TRUE)
  IN NormFloat(DigitsToNat(SelectDigits(s)), frac)

(***************************************************************************)
(* The heap: address -> items of the list stored there.                    *)
(***************************************************************************)
EmptyHeap == [a \in {} |-> <<>>]
Fresh(h) == CHOOSE a \in 1..(Cardinality(DOMAIN h) + 1) : a \notin DOMAIN h
Alloc(h, items) == [val |-> ListRef(Fresh(h)), heap |-> h @@ (Fresh(h) :> items)]

\* list(s): a new list holding the characters of s as one-character strings
CharItems(s) == [k \in 1..Len(s) |-> StrV(<<s[k]>>)]

(***************************************************************************)
(* argparse's _get_value: type_func(arg_string).  ty "none" is an action   *)
(* registered without type, which keeps the string.                        *)
(***************************************************************************)
ConvertFails(ty, s) ==
  \/ ty = "int" /\ ~(s # <<>> /\ AllDigits(s))
  \/ ty = "float" /\ ~IsFloatLiteral(s)

Convert(ty, s, h) ==
  CASE ty = "int" -> [val |-> IntV(DigitsToNat(s)), heap |-> h]
    [] ty = "float" -> [val |-> ParseFloat(s), heap |-> h]
    [] ty = "bool" -> [val |-> BoolV(s # <<>>), heap |-> h]
    [] ty = "list" -> Alloc(h, CharItems(s))
    [] OTHER -> [val |-> StrV(s), heap |-> h]

(***************************************************************************)
(* copy.deepcopy                                                           *)
(***************************************************************************)
\* setattr(self, variable, value) without the deepcopy of line 74
deepcopy_alias(v, h) == [val |-> v, heap |-> h]

RECURSIVE deepcopy(_, _), CopyItems(_, _)
deepcopy(v, h) ==
  IF v.ty # "list" THEN [val |-> v, heap |-> h]
  ELSE LET c == CopyItems(h[v.ref], h) IN Alloc(c.heap, c.items)

CopyItems(items, h) ==
  IF items = <<>> THEN [items |-> <<>>, heap |-> h]
  ELSE LET c == deepcopy(Head(items), h)
           r == CopyItems(Tail(items), c.heap)
       IN [items |-> <<c.val>> \o r.items, heap |-> r.heap]

\* the value held at a list address, by content (what == compares)
RECURSIVE Content(_, _)
Content(v, h) ==
  [ty |-> v.ty, n |-> v.n, e |-> v.e, s |-> v.s,
   items |-> IF v.ty = "list"
             THEN [k \in 1..Len(h[v.ref]) |-> Content(h[v.ref][k], h)]
             ELSE <<>>]

\* addresses reachable from a value
RECURSIVE Reach(_, _)
Reach(v, h) ==
  IF v.ty # "list" THEN {}
  ELSE {v.ref} \cup UNION {Reach(h[v.ref][k], h) : k \in 1..Len(h[v.ref])}

(***************************************************************************)
(* Tap subclasses.  A field declaration is "name: ty" or "name: ty = dflt" *)
(* in the class body; dflt = Absent is a field without a class-level       *)
(* value.  The body also holds a public attribute without annotation       *)
(* (name = "ab"), a private one (_secret = 7) and a method (helper).       *)
(***************************************************************************)
AllNames ==
  {"epochs", "lr", "tags", "reproducibility", "verbose", "name", "_secret", "helper"}

Decl(name, ty, dflt) == [name |-> name, ty |-> ty, dflt |-> dflt]

\* the class-level list object  tags: list = [["a"]]
ClassList == ListRef(1)
ClassHeap == (1 :> <<ListRef(2)>>) @@ (2 :> <<StrV(<<"a">>)>>)

DeclOptions ==
  { Decl("epochs", "int", d) : d \in {Absent, IntV(10), BoolV(TRUE), StrV(<<"7">>)} }
  \cup { Decl("lr", "float", d) : d \in {Absent, FloatV(5, 1), IntV(7)} }
  \cup { Decl("tags", "list", d) : d \in {Absent, ClassList} }
  \cup { Decl("reproducibility", "str", Absent) }
  \cup { Decl("verbose", "bool", Absent) }

\* the declarations of a class body, in the order the fields are written down;
\* the add_arguments hook is what makes a later field come first in the parser
FieldOrder == <<"epochs", "lr", "tags", "reproducibility", "verbose">>
Position(v) == CHOOSE p \in 1..Len(FieldOrder) : FieldOrder[p] = v

AnnotationLists ==
  { a \in UNION {[1..n -> DeclOptions] : n \in 1..MaxFields} :
      \A j, k \in 1..Len(a) : j < k => Position(a[j].name) < Position(a[k].name) }

AnnNames(c) == {c.ann[k].name : k \in 1..Len(c.ann)}
AnnType(c, v) == c.ann[CHOOSE k \in 1..Len(c.ann) : c.ann[k].name = v].ty

\* __class__.__dict__ of the subclass
ClassBody(a) ==
  [v \in AllNames |->
     IF \E k \in 1..Len(a) : a[k].name = v
       THEN a[CHOOSE k \in 1..Len(a) : a[k].name = v].dflt
     ELSE IF v = "name" THEN StrV(<<"a", "b">>)
     ELSE IF v = "_secret" THEN IntV(7)
     ELSE IF v = "helper" THEN FuncV
     ELSE Absent]

\* the add_arguments override: add_argument("--v") calls without keywords
HookLists(a) ==
  { h \in UNION {[1..n -> {a[k].name : k \in 1..Len(a)} \cup {"name"}] : n \in 0..MaxHook} :
      \A j, k \in 1..Len(h) : h[j] = h[k] => j = k }

Classes ==
  UNION { { [ann |-> [k \in 1..Len(a) |-> [name |-> a[k].name, ty |-> a[k].ty]],
             body |-> ClassBody(a), hook |-> h] : h \in HookLists(a) } :
          a \in AnnotationLists }

\* the list objects that exist once the class body has been executed
InitialHeap(c) == IF c.body["tags"] = ClassList THEN ClassHeap ELSE EmptyHeap

(***************************************************************************)
(* Attribute lookup on an instance: the instance __dict__ first, then the  *)
(* class.  self is the instance __dict__ as a function on AllNames.        *)
(***************************************************************************)
getattr(c, self, v) == IF self[v] # Absent THEN self[v] ELSE c.body[v]
hasattr(c, self, v) == getattr(c, self, v) # Absent

\* an instance __dict__ without any attribute
NoAttrs == [v \in AllNames |-> Absent]

\* Tap.__init__ line 19 sets self.verbose before any argument is registered
NewInstance(verbose) == [v \in AllNames |-> IF v = "verbose" THEN BoolV(verbose) ELSE Absent]

(***************************************************************************)
(* Registration.  An argparse action is dest, type, default, required.     *)
(* kwargs is <<>> for a call without the required keyword, for which       *)
(* argparse takes False, and <<b>> for required=b.                         *)
(***************************************************************************)
Dests(acts) == {acts[k].dest : k \in 1..Len(acts)}

\* lines 40-41 left out: the existing value is not taken as the default
add_argument_nodefault(c, self, acts, variable, kwargs) ==
  Append(acts,
    [dest |-> variable,
     ty |-> IF variable \in AnnNames(c) THEN AnnType(c, variable) ELSE "none",
     default |-> NoneV,
     required |-> IF kwargs = <<>> THEN FALSE ELSE kwargs[1]])

add_argument(c, self, acts, variable, kwargs) ==
  Append(acts,
    [dest |-> variable,
     ty |-> IF variable \in AnnNames(c) THEN AnnType(c, variable) ELSE "none",
     default |-> IF hasattr(c, self, variable) THEN getattr(c, self, variable) ELSE NoneV,
     required |-> IF kwargs = <<>> THEN FALSE ELSE kwargs[1]])

RECURSIVE add_arguments(_, _, _, _)
add_arguments(c, self, acts, k) ==
  IF k > Len(c.hook) THEN acts
  ELSE add_arguments(c, self, add_argument(c, self, acts, c.hook[k], <<>>), k + 1)

RECURSIVE AddRemainingFrom(_, _, _, _, _)
AddRemainingFrom(c, self, current, acts, k) ==
  IF k > Len(c.ann) THEN acts
  ELSE LET variable == c.ann[k].name IN
       IF variable \notin current
         THEN AddRemainingFrom(c, self, current,
                add_argument(c, self, acts, variable, <<~hasattr(c, self, variable)>>), k + 1)
         ELSE AddRemainingFrom(c, self, current, acts, k + 1)

_add_remaining_arguments(c, self, acts) == AddRemainingFrom(c, self, Dests(acts), acts, 1)

\* Tap.__init__: the hook first, then the remaining annotated fields
Construct(c, self) == _add_remaining_arguments(c, self, add_arguments(c, self, <<>>, 1))

(***************************************************************************)
(* ArgumentParser.parse_args(args, None), reached by line 60.  A command   *)
(* line is a sequence of [flag, s]: "--flag" followed by the string s.     *)
(* The namespace is a sequence of [name, val] in insertion order, which is *)
(* the order vars(default_namespace).items() iterates in.                  *)
(***************************************************************************)
ArgStrings == {<<"7">>, <<"0", ".", "5">>, <<"a", "b">>}

NsNames(ns) == {ns[k].name : k \in 1..Len(ns)}
NsSet(ns, v, x) ==
  IF v \in NsNames(ns)
    THEN [k \in 1..Len(ns) |-> IF ns[k].name = v THEN [name |-> v, val |-> x] ELSE ns[k]]
    ELSE Append(ns, [name |-> v, val |-> x])

ActionFor(acts, flag) == CHOOSE k \in 1..Len(acts) : acts[k].dest = flag

\* every action's default is put on the fresh namespace before any argument is read
RECURSIVE NamespaceDefaults(_, _, _)
NamespaceDefaults(acts, k, ns) ==
  IF k > Len(acts) THEN ns
  ELSE NamespaceDefaults(acts, k + 1,
         IF acts[k].dest \in NsNames(ns) THEN ns
         ELSE NsSet(ns, acts[k].dest, acts[k].default))

\* the argument strings are consumed left to right; a later occurrence of a flag
\* replaces an earlier one; a string its type rejects ends the parse at once
RECURSIVE ConsumeArgs(_, _, _, _)
ConsumeArgs(acts, argv, k, st) ==
  IF k > Len(argv) \/ st.err # "" THEN st
  ELSE LET flag == argv[k].flag IN
       IF flag \notin Dests(acts)
         THEN ConsumeArgs(acts, argv, k + 1, [st EXCEPT !.extras = TRUE])
       ELSE LET a == acts[ActionFor(acts, flag)] IN
            IF ConvertFails(a.ty, argv[k].s)
              THEN [st EXCEPT !.err = "invalid"]
            ELSE LET c == Convert(a.ty, argv[k].s, st.heap) IN
                 ConsumeArgs(acts, argv, k + 1,
                   [st EXCEPT !.ns = NsSet(st.ns, flag, c.val), !.heap = c.heap,
                              !.seen = st.seen \cup {flag}])

\* an unseen optional action whose default is a str gets that string converted
\* by the action's type, exactly like an argument string
RECURSIVE ConvertStringDefaults(_, _, _)
ConvertStringDefaults(acts, k, st) ==
  IF k > Len(acts) \/ st.err # "" THEN st
  ELSE LET a == acts[k] IN
       IF a.dest \in st.seen \/ a.required \/ a.default.ty # "str"
         THEN ConvertStringDefaults(acts, k + 1, st)
       ELSE IF ConvertFails(a.ty, a.default.s)
         THEN [st EXCEPT !.err = "invalid"]
       ELSE LET c == Convert(a.ty, a.default.s, st.heap) IN
            ConvertStringDefaults(acts, k + 1,
              [st EXCEPT !.ns = NsSet(st.ns, a.dest, c.val), !.heap = c.heap])

MissingRequired(acts, seen) ==
  {acts[k].dest : k \in {j \in 1..Len(acts) : acts[j].required /\ acts[j].dest \notin seen}}

\* err: "" (a namespace is returned) or the usage error the parser exits with
ArgumentParser_parse_args(acts, argv, h) ==
  LET st0 == [ns |-> NamespaceDefaults(acts, 1, <<>>), heap |-> h, seen |-> {},
              extras |-> FALSE, err |-> ""]
      st1 == ConsumeArgs(acts, argv, 1, st0)
      st2 == ConvertStringDefaults(acts, 1, st1)
  IN IF st2.err # "" THEN st2
     ELSE IF MissingRequired(acts, st2.seen) # {} THEN [st2 EXCEPT !.err = "required"]
     ELSE IF st2.extras THEN [st2 EXCEPT !.err = "unrecognized"]
     ELSE st2

UsageErrors == {"invalid", "required", "unrecognized"}

(***************************************************************************)
(* State.                                                                  *)
(*   cls      the Tap subclass under consideration                         *)
(*   heap     the list objects                                             *)
(*   actions  per instance, the argparse actions registered by __init__    *)
(*   inst     per instance, its __dict__                                   *)
(*   call     the parse_args call in progress or last finished             *)
(*   parsed   the instances on which a parse_args call has returned        *)
(*   out      what the last as_dict / get_arg_log call returned            *)
(*   file     the file written by save                                     *)
(***************************************************************************)
Insts == {1, 2}

NoSup == [v \in AllNames |-> [given |-> FALSE, s |-> <<>>]]

\* what a command line supplies for each flag (the last occurrence counts)
Supplied(argv) ==
  [v \in AllNames |->
     LET ks == {k \in 1..Len(argv) : argv[k].flag = v} IN
     IF ks = {} THEN [given |-> FALSE, s |-> <<>>]
     ELSE [given |-> TRUE, s |-> argv[CHOOSE k \in ks : \A j \in ks : j <= k].s]]

\* pre is the instance __dict__ at the start of the call, kept while the loop of
\* _parse_args runs and after it raised; the other fields follow the call
\* again tells that an earlier parse_args call on the instance had returned, ret is
\* the instance handed back by line 113
IdleCall ==
  [phase |-> "idle", i |-> 0, ns |-> <<>>, k |-> 0, sup |-> NoSup, pre |-> NoAttrs,
   nvalidate |-> 0, nprocess |-> 0, err |-> "", again |-> FALSE, ret |-> 0]

NoOut == [op |-> "none", i |-> 0, err |-> "", d |-> <<>>]
NoFile == [state |-> "none", data |-> <<>>]

\* no parse_args call is executing
AtRest == call.phase \in {"idle", "returned", "raised"}

\* "--name" is a flag no annotation stands behind
Tokens(c) ==
  [flag : AnnNames(c), s : ArgStrings] \cup {[flag |-> "name", s |-> <<"a", "b">>]}
CommandLines(c) == UNION {[1..n -> Tokens(c)] : n \in 0..MaxArgs}

\* self.verbose only matters to a class that declares a field of that name
VerboseChoices(c) == IF "verbose" \in AnnNames(c) THEN BOOLEAN ELSE {FALSE}

\* objects no name refers to any more are reclaimed (the namespace of a finished
\* call is dropped when the next call starts)
Roots(c, in) == {c.body[v] : v \in AllNames} \cup {in[i][v] : i \in DOMAIN in, v \in AllNames}
Collect(c, in, h) ==
  LET live == UNION {Reach(r, h) : r \in Roots(c, in)} IN [a \in live |-> h[a]]

Init ==
  /\ cls \in Classes
  /\ heap = InitialHeap(cls)
  /\ \E verbose \in VerboseChoices(cls) :
       /\ inst = (1 :> NewInstance(verbose))
       /\ actions = (1 :> Construct(cls, NewInstance(verbose)))
  /\ call = IdleCall
  /\ parsed = {}
  /\ out = NoOut
  /\ file = NoFile
  /\ nparses = 0
  /\ nmut = 0

\* a second instance of the same subclass: Tap.__init__, lines 15-27
NewTap(verbose) ==
  /\ AtRest
  /\ 2 \notin DOMAIN inst
  /\ nparses < MaxParses
  /\ inst' = inst @@ (2 :> NewInstance(verbose))
  /\ actions' = actions @@ (2 :> Construct(cls, NewInstance(verbose)))
  /\ UNCHANGED <<cls, heap, call, parsed, out, file, nparses, nmut>>

(***************************************************************************)
(* parse_args, lines 106-113, and _parse_args, lines 57-74.                *)
(***************************************************************************)
StartCall(i, argv) ==
  [IdleCall EXCEPT !.i = i, !.sup = Supplied(argv), !.pre = inst[i], !.again = i \in parsed]

\* line 60 exits with the parser's usage error (SystemExit)
ParseArgsUsageError(i, argv) ==
  /\ AtRest /\ i \in DOMAIN inst /\ nparses < MaxParses
  /\ LET r == ArgumentParser_parse_args(actions[i], argv, Collect(cls, inst, heap)) IN
       /\ r.err # ""
       /\ call' = [StartCall(i, argv) EXCEPT !.phase = "raised", !.err = r.err]
  /\ heap' = Collect(cls, inst, heap)
  /\ nparses' = nparses + 1
  /\ out' = NoOut
  /\ UNCHANGED <<cls, actions, inst, parsed, file, nmut>>

\* line 60 returns the namespace; the loop of line 62 starts
ParseArgsDelegate(i, argv) ==
  /\ AtRest /\ i \in DOMAIN inst /\ nparses < MaxParses
  /\ LET r == ArgumentParser_parse_args(actions[i], argv, Collect(cls, inst, heap)) IN
       /\ r.err = ""
       /\ call' = [StartCall(i, argv) EXCEPT
                     !.phase = "loop", !.ns = r.ns, !.k = 1]
       /\ heap' = r.heap
  /\ nparses' = nparses + 1
  /\ out' = NoOut
  /\ UNCHANGED <<cls, actions, inst, parsed, file, nmut>>

\* the exception leaves parse_args; ns and k stay as they were at the raise
Raise(err) == call' = [call EXCEPT !.phase = "raised", !.err = err]

InLoop == call.phase = "loop" /\ call.k <= Len(call.ns)

\* lines 64-65
RaiseUndeclared ==
  /\ InLoop
  /\ call.ns[call.k].name \notin AnnNames(cls)
  /\ Raise("undeclared")
  /\ UNCHANGED <<cls, heap, actions, inst, parsed, out, file, nparses, nmut>>

\* isinstance(value, variable_type) in place of the comparison of line 69
TypeMatches_isinstance(variable_type, value) ==
  variable_type = value.ty \/ (variable_type = "int" /\ value.ty = "bool")

TypeMatches(variable_type, value) == variable_type = value.ty

\* setattr placed before the type check
RaiseTypeMismatch_AfterSet ==
  /\ InLoop
  /\ call.ns[call.k].name \in AnnNames(cls)
  /\ ~TypeMatches(AnnType(cls, call.ns[call.k].name), call.ns[call.k].val)
  /\ Raise("type_mismatch")
  /\ inst' = [inst EXCEPT ![call.i][call.ns[call.k].name] = call.ns[call.k].val]
  /\ UNCHANGED <<cls, heap, actions, parsed, out, file, nparses, nmut>>

\* lines 68-71
RaiseTypeMismatch ==
  /\ InLoop
  /\ call.ns[call.k].name \in AnnNames(cls)
  /\ ~TypeMatches(AnnType(cls, call.ns[call.k].name), call.ns[call.k].val)
  /\ Raise("type_mismatch")
  /\ UNCHANGED <<cls, heap, actions, inst, parsed, out, file, nparses, nmut>>

SetVariable(self, variable, value, h) ==
  LET c == deepcopy(value, h) IN
  [self |-> [self EXCEPT ![variable] = c.val], heap |-> c.heap]

\* validate_args called from inside the loop, after the first binding
CopyVariable_EarlyValidate ==
  /\ InLoop
  /\ call.ns[call.k].name \in AnnNames(cls)
  /\ TypeMatches(AnnType(cls, call.ns[call.k].name), call.ns[call.k].val)
  /\ LET r == SetVariable(inst[call.i], call.ns[call.k].name, call.ns[call.k].val, heap) IN
       /\ inst' = [inst EXCEPT ![call.i] = r.self]
       /\ heap' = r.heap
  /\ call' = [call EXCEPT !.phase = "validate", !.k = 0, !.pre = NoAttrs]
  /\ UNCHANGED <<cls, actions, parsed, out, file, nparses, nmut>>

\* lines 73-74, and the loop going on to the next binding or ending
CopyVariable ==
  /\ InLoop
  /\ call.ns[call.k].name \in AnnNames(cls)
  /\ TypeMatches(AnnType(cls, call.ns[call.k].name), call.ns[call.k].val)
  /\ LET r == SetVariable(inst[call.i], call.ns[call.k].name, call.ns[call.k].val, heap) IN
       /\ inst' = [inst EXCEPT ![call.i] = r.self]
       /\ heap' = r.heap
  /\ call' = IF call.k < Len(call.ns)
               THEN [call EXCEPT !.k = call.k + 1]
               ELSE [call EXCEPT !.phase = "validate", !.k = 0, !.pre = NoAttrs]
  /\ UNCHANGED <<cls, actions, parsed, out, file, nparses, nmut>>

\* line 110: the hook either returns or raises
ValidateArgs(ok) ==
  /\ call.phase = "validate"
  /\ call' = IF ok
               THEN [call EXCEPT !.phase = "process", !.nvalidate = call.nvalidate + 1]
               ELSE [call EXCEPT !.phase = "raised", !.err = "validate_args",
                                 !.nvalidate = call.nvalidate + 1]
  /\ UNCHANGED <<cls, heap, actions, inst, parsed, out, file, nparses, nmut>>

\* line 111
ProcessArgs(ok) ==
  /\ call.phase = "process"
  /\ call' = IF ok
               THEN [call EXCEPT !.phase = "return", !.nprocess = call.nprocess + 1]
               ELSE [call EXCEPT !.phase = "raised", !.err = "process_args",
                                 !.nprocess = call.nprocess + 1]
  /\ UNCHANGED <<cls, heap, actions, inst, parsed, out, file, nparses, nmut>>

\* line 113: return self
Return ==
  /\ call.phase = "return"
  /\ call' = [call EXCEPT !.phase = "returned", !.ret = call.i]
  /\ parsed' = parsed \cup {call.i}
  /\ UNCHANGED <<cls, heap, actions, inst, out, file, nparses, nmut>>

(***************************************************************************)
(* as_dict, lines 115-130; get_arg_log, lines 99-104; save, lines 132-139. *)
(***************************************************************************)
StartsWithUnderscore(v) == v \in {"_secret"}
callable(val) == val.ty = "function"

\* {**a, **b}
Merge(a, b) ==
  [k \in DOMAIN a \cup DOMAIN b |-> IF k \in DOMAIN b THEN b[k] ELSE a[k]]

\* getattr on the class in place of the instance
as_dict_class_values(c, self) ==
  LET class_dict == {v \in AllNames : c.body[v] # Absent}
      required_args ==
        [v \in {x \in class_dict : ~StartsWithUnderscore(x) /\ ~callable(c.body[x])} |->
           getattr(c, NoAttrs, v)]
      not_required_args == [v \in AnnNames(c) |-> getattr(c, NoAttrs, v)]
  IN IF \E v \in AnnNames(c) : ~hasattr(c, NoAttrs, v)
       THEN [err |-> "AttributeError", d |-> <<>>]
       ELSE [err |-> "", d |-> Merge(required_args, not_required_args)]

\* err is "AttributeError" when getattr finds no value for an annotated field
as_dict(c, self) ==
  LET class_dict == {v \in AllNames : c.body[v] # Absent}
      required_args ==
        [v \in {x \in class_dict : ~StartsWithUnderscore(x) /\ ~callable(c.body[x])} |->
           getattr(c, self, v)]
      not_required_args == [v \in AnnNames(c) |-> getattr(c, self, v)]
  IN IF \E v \in AnnNames(c) : ~hasattr(c, self, v)
       THEN [err |-> "AttributeError", d |-> <<>>]
       ELSE [err |-> "", d |-> Merge(required_args, not_required_args)]

\* lines 85-97: command line, time and git state, as one dict
DictV == Val("dict", 0, 0, <<>>, 0)
get_reproducibility_info == DictV

get_arg_log(c, self) ==
  LET arg_log == as_dict(c, self) IN
  IF arg_log.err # "" THEN arg_log
  ELSE [err |-> "", d |-> Merge(arg_log.d, [k \in {"reproducibility"} |-> get_reproducibility_info])]

AsDict(i) ==
  /\ AtRest /\ i \in DOMAIN inst
  /\ out' = [op |-> "as_dict", i |-> i, err |-> as_dict(cls, inst[i]).err,
             d |-> as_dict(cls, inst[i]).d]
  /\ UNCHANGED <<cls, heap, actions, inst, call, parsed, file, nparses, nmut>>

GetArgLog(i) ==
  /\ AtRest /\ i \in DOMAIN inst
  /\ out' = [op |-> "get_arg_log", i |-> i, err |-> get_arg_log(cls, inst[i]).err,
             d |-> get_arg_log(cls, inst[i]).d]
  /\ UNCHANGED <<cls, heap, actions, inst, call, parsed, file, nparses, nmut>>

(***************************************************************************)
(* json.dump and json.load.  A JSON text is a token: kind, text, items.    *)
(***************************************************************************)
RECURSIVE NatToDigits(_)
NatToDigits(n) ==
  IF n < 10 THEN <<DigitChars[n + 1]>>
  ELSE Append(NatToDigits(n \div 10), DigitChars[(n % 10) + 1])

RECURSIVE Pow10(_)
Pow10(e) == IF e = 0 THEN 1 ELSE 10 * Pow10(e - 1)

RECURSIVE PadDigits(_, _)
PadDigits(ds, width) == IF Len(ds) >= width THEN ds ELSE PadDigits(<<"0">> \o ds, width)

\* float.__repr__: integer part, point, at least one fraction digit
FloatRepr(n, e) ==
  IF e = 0 THEN NatToDigits(n) \o <<".", "0">>
  ELSE NatToDigits(n \div Pow10(e)) \o <<".">> \o PadDigits(NatToDigits(n % Pow10(e)), e)

Token(kind, text, items) == [kind |-> kind, text |-> text, items |-> items]

RECURSIVE json_dumps(_, _)
json_dumps(v, h) ==
  CASE v.ty = "int" -> Token("number", NatToDigits(v.n), <<>>)
    [] v.ty = "float" -> Token("number", FloatRepr(v.n, v.e), <<>>)
    [] v.ty = "bool" -> Token(IF v.n = 1 THEN "true" ELSE "false", <<>>, <<>>)
    [] v.ty = "str" -> Token("string", v.s, <<>>)
    [] v.ty = "NoneType" -> Token("null", <<>>, <<>>)
    [] v.ty = "list" ->
         Token("array", <<>>, [k \in 1..Len(h[v.ref]) |-> json_dumps(h[v.ref][k], h)])
    [] v.ty = "dict" -> Token("object", <<>>, <<>>)
    [] OTHER -> Token("TypeError", <<>>, <<>>)

\* what json.load gives back, by content
Loaded(ty, n, e, s, items) == [ty |-> ty, n |-> n, e |-> e, s |-> s, items |-> items]

RECURSIVE json_loads(_)
json_loads(tok) ==
  CASE tok.kind = "number" ->
         IF DotPositions(tok.text) = {}
           THEN Loaded("int", DigitsToNat(tok.text), 0, <<>>, <<>>)
           ELSE Loaded("float", ParseFloat(tok.text).n, ParseFloat(tok.text).e, <<>>, <<>>)
    [] tok.kind = "true" -> Loaded("bool", 1, 0, <<>>, <<>>)
    [] tok.kind = "false" -> Loaded("bool", 0, 0, <<>>, <<>>)
    [] tok.kind = "string" -> Loaded("str", 0, 0, tok.text, <<>>)
    [] tok.kind = "null" -> Loaded("NoneType", 0, 0, <<>>, <<>>)
    [] tok.kind = "array" ->
         Loaded("list", 0, 0, <<>>, [k \in 1..Len(tok.items) |-> json_loads(tok.items[k])])
    [] OTHER -> Loaded("dict", 0, 0, <<>>, <<>>)

\* open(path, 'w') truncates the file before get_arg_log is evaluated
Save(i) ==
  /\ AtRest /\ i \in DOMAIN inst
  /\ LET log == get_arg_log(cls, inst[i]) IN
       /\ file' = IF log.err # "" THEN [state |-> "empty", data |-> <<>>]
                  ELSE [state |-> "written",
                        data |-> [k \in DOMAIN log.d |-> json_dumps(log.d[k], heap)]]
       /\ out' = [op |-> "save", i |-> i, err |-> log.err, d |-> <<>>]
  /\ UNCHANGED <<cls, heap, actions, inst, call, parsed, nparses, nmut>>

(***************************************************************************)
(* The caller appends to a list it reads from a parsed instance, either    *)
(* the field's list or a list inside it.                                   *)
(***************************************************************************)
MutateField(i, v, a) ==
  /\ AtRest /\ i \in parsed /\ nmut < MaxMutations
  /\ inst[i][v].ty = "list"
  /\ a \in Reach(inst[i][v], heap)
  /\ heap' = [Collect(cls, inst, heap) EXCEPT ![a] = Append(@, StrV(<<"z">>))]
  /\ nmut' = nmut + 1
  /\ call' = IdleCall
  /\ out' = [NoOut EXCEPT !.op = "mutate", !.i = i]
  /\ UNCHANGED <<cls, actions, inst, parsed, file, nparses>>

Next ==
  \/ \E i \in Insts : \E argv \in CommandLines(cls) : ParseArgsUsageError(i, argv)
  \/ \E i \in Insts : \E argv \in CommandLines(cls) : ParseArgsDelegate(i, argv)
  \/ RaiseUndeclared
  \/ RaiseTypeMismatch
  \/ CopyVariable
  \/ \E ok \in BOOLEAN : ValidateArgs(ok)
  \/ \E ok \in BOOLEAN : ProcessArgs(ok)
  \/ Return
  \/ \E i \in Insts : AsDict(i)
  \/ \E i \in Insts : GetArgLog(i)

Spec == Init /\ [][Next]_vars

\* the same, with the file system
NextSave == Next \/ \E i \in Insts : Save(i)

SpecSave == Init /\ [][NextSave]_vars

\* two instances of a subclass that declares a list-typed field
InitTwo == Init /\ \E k \in 1..Len(cls.ann) : cls.ann[k].ty = "list"

NextTwo ==
  \/ Next
  \/ \E verbose \in VerboseChoices(cls) : NewTap(verbose)
  \/ \E i \in Insts, v \in AllNames, a \in DOMAIN heap : MutateField(i, v, a)

SpecTwo == InitTwo /\ [][NextTwo]_vars

(***************************************************************************)
(* Properties.                                                             *)
(***************************************************************************)
\* hasattr(self, v) when the arguments were registered: a class-level value, or
\* the attribute __init__ sets on every parser
HadAttr(v) == cls.body[v] # Absent \/ v = "verbose"

\* type_func(s), by content
ConvertedContent(ty, s) ==
  LET c == Convert(ty, s, EmptyHeap) IN Content(c.val, c.heap)

\* what the parser makes of a class-level default when the flag is omitted
DefaultContent(v) ==
  IF cls.body[v].ty = "str"
    THEN ConvertedContent(AnnType(cls, v), cls.body[v].s)
    ELSE Content(cls.body[v], heap)

Returned == call.phase = "returned"
Raised == call.phase = "raised"
Given(v) == call.sup[v].given

\* a class-level default of another type than the annotation, with the flag omitted
MismatchedDefaultUsed(v) ==
  /\ ~Given(v)
  /\ cls.body[v] # Absent
  /\ cls.body[v].ty # AnnType(cls, v)

C2_Original ==
  \A v \in AnnNames(cls) :
    (call.phase # "idle" /\ ~HadAttr(v) /\ ~Given(v)) =>
      /\ Raised
      /\ call.err \in UsageErrors
      /\ inst[call.i] = call.pre
      /\ call.nvalidate = 0 /\ call.nprocess = 0

C4_Original ==
  \A i \in DOMAIN actions : \A k \in 1..Len(actions[i]) :
    LET a == actions[i][k] IN
    a.dest \in AnnNames(cls) =>
      IF HadAttr(a.dest)
        THEN ~a.required /\ (i \notin parsed /\ call.i # i => a.default = getattr(cls, inst[i], a.dest))
        ELSE a.required

\* the bindings the loop of _parse_args has dealt with so far
Done == IF call.phase = "loop" \/ (Raised /\ call.k > 0) THEN call.k - 1 ELSE Len(call.ns)
Copied(j) ==
  Content(inst[call.i][call.ns[j].name], heap) = Content(call.ns[j].val, heap)

\* C5: within a call, validate_args runs once and only after every binding has
\* been type-checked and copied, process_args runs once and only after
\* validate_args has returned, the instance itself is returned after that, and a
\* failing validate_args ends the call without process_args.
C5_HookOrder ==
  /\ call.phase = "loop" => call.nvalidate = 0 /\ call.nprocess = 0
  /\ call.phase = "validate" =>
       /\ call.nvalidate = 0 /\ call.nprocess = 0
       /\ \A j \in 1..Len(call.ns) :
            /\ call.ns[j].name \in AnnNames(cls)
            /\ call.ns[j].val.ty = AnnType(cls, call.ns[j].name)
            /\ Copied(j)
  /\ call.phase = "process" => call.nvalidate = 1 /\ call.nprocess = 0
  /\ call.phase = "return" => call.nvalidate = 1 /\ call.nprocess = 1
  /\ Returned => call.nvalidate = 1 /\ call.nprocess = 1 /\ call.ret = call.i
  /\ (Raised /\ call.err = "validate_args") => call.nvalidate = 1 /\ call.nprocess = 0
  /\ (Raised /\ call.err = "process_args") => call.nvalidate = 1 /\ call.nprocess = 1
  /\ (Raised /\ call.err \notin {"validate_args", "process_args"}) =>
       call.nvalidate = 0 /\ call.nprocess = 0
  /\ call.ret # 0 => Returned

\* a call on a class with two fields has returned
C5_Witness ==
  /\ Returned /\ call.ret = call.i
  /\ Len(call.ns) = 2
  /\ \A j \in 1..2 : Copied(j)
  /\ call.nvalidate = 1 /\ call.nprocess = 1

\* C6: the loop stops at the first binding that has no annotation or a value of
\* another type than its annotation; the bindings before it have been copied onto
\* the instance, every other attribute is as it was when the call started, and no
\* hook has run.
C6_AbortAtBinding ==
  /\ call.phase \in {"loop", "validate", "process", "return", "returned"} =>
       \A j \in 1..Done :
         /\ call.ns[j].name \in AnnNames(cls)
         /\ call.ns[j].val.ty = AnnType(cls, call.ns[j].name)
  /\ (Raised /\ call.err \in {"undeclared", "type_mismatch"}) =>
       /\ call.k \in 1..Len(call.ns)
       /\ \/ call.ns[call.k].name \notin AnnNames(cls)
          \/ call.ns[call.k].val.ty # AnnType(cls, call.ns[call.k].name)
       /\ (call.err = "undeclared") = (call.ns[call.k].name \notin AnnNames(cls))
       /\ \A j \in 1..(call.k - 1) : Copied(j)
       /\ \A v \in AllNames \ {call.ns[j].name : j \in 1..(call.k - 1)} :
            inst[call.i][v] = call.pre[v]
       /\ call.nvalidate = 0 /\ call.nprocess = 0

\* the second binding failed the type check after the first had been copied from
\* the command line
C6_Witness ==
  /\ Raised /\ call.err = "type_mismatch" /\ call.k = 2
  /\ Given(call.ns[1].name)
  /\ inst[call.i][call.ns[1].name] # call.pre[call.ns[1].name]
  /\ Copied(1)
  /\ inst[call.i][call.ns[2].name] = call.pre[call.ns[2].name]

\* C9: as_dict returns exactly the public, non-callable attributes of the class
\* body together with the annotated fields, each with the value the instance holds
\* at the time of the call.
C9_AsDict ==
  (out.op = "as_dict" /\ out.err = "") =>
    /\ DOMAIN out.d =
         {v \in AllNames : cls.body[v] # Absent /\ v # "_secret" /\ cls.body[v].ty # "function"}
           \cup AnnNames(cls)
    /\ \A v \in DOMAIN out.d : out.d[v] = getattr(cls, inst[out.i], v)
    /\ \A v \in AnnNames(cls) : out.d[v] # Absent

\* as_dict after a parse that gave a field without class-level value and replaced
\* the class-level value of another
C9_Witness ==
  /\ out.op = "as_dict" /\ out.err = "" /\ out.i \in parsed
  /\ \E v, w \in AnnNames(cls) :
       /\ cls.body[v] = Absent /\ v # "verbose" /\ out.d[v] = inst[out.i][v]
       /\ cls.body[w] # Absent /\ out.d[w] # cls.body[w]
  /\ "name" \in DOMAIN out.d /\ "_secret" \notin DOMAIN out.d /\ "helper" \notin DOMAIN out.d

\* C10 as stated: on an instance on which parse_args has returned before, a call
\* that omits the flag of a field with a class-level default returns with that
\* default in the field, and a call that omits the flag of a field without default
\* ends in the parser's usage error.
C10_Original ==
  \A v \in AnnNames(cls) :
    /\ (call.again /\ Returned /\ cls.body[v] # Absent /\ ~Given(v)) =>
         Content(inst[call.i][v], heap) = DefaultContent(v)
    /\ (call.again /\ call.phase # "idle" /\ ~HadAttr(v) /\ ~Given(v)) =>
         Raised /\ call.err \in UsageErrors

\* the lists an instance's attributes lead to, and those the class body leads to
Objects(i) == UNION {Reach(inst[i][v], heap) : v \in AllNames}
ClassObjects == UNION {Reach(cls.body[v], heap) : v \in AllNames}

\* C7: instances on which parse_args has returned share no list with each other
\* or with the class body, and the class-level list keeps the content the class
\* body gave it whatever is appended to the lists of an instance.
C7_NoSharing ==
  /\ \A i, j \in parsed : i # j => Objects(i) \cap Objects(j) = {}
  /\ \A i \in parsed : Objects(i) \cap ClassObjects = {}
  /\ cls.body["tags"] = ClassList => Content(ClassList, heap) = Content(ClassList, ClassHeap)

\* both instances took the class-level list as default; a list of the first was
\* appended to, the second and the class still hold the original content
C7_Witness ==
  /\ parsed = {1, 2}
  /\ cls.body["tags"] = ClassList
  /\ out.op = "mutate" /\ out.i = 1 /\ nmut = 1
  /\ Content(inst[2]["tags"], heap) = Content(ClassList, ClassHeap)
  /\ Content(inst[1]["tags"], heap) # Content(inst[2]["tags"], heap)
  /\ Content(ClassList, heap) = Content(ClassList, ClassHeap)

\* C8 as stated: the file written by save, read back, has the keys of as_dict()
\* and 'reproducibility', equals as_dict() on every other key, and no value of
\* as_dict() is lost or replaced by the reproducibility record.
C8_Original ==
  (out.op = "save" /\ out.i \in parsed) =>
    LET d == as_dict(cls, inst[out.i]).d IN
    /\ out.err = "" /\ file.state = "written"
    /\ DOMAIN file.data = DOMAIN d \cup {"reproducibility"}
    /\ \A k \in DOMAIN d \ {"reproducibility"} :
         json_loads(file.data[k]) = Content(d[k], heap)
    /\ \A k \in DOMAIN d : json_loads(file.data[k]) = Content(d[k], heap)
====
